---- MODULE Spec2Model ----
(***************************************************************************)
(* Redux glue between the lib-jitsi-meet SDK and the store:                *)
(*   features/base/participants/actions.js  (participant action creators)  *)
(*   features/base/conference/actions.js    (conference action creators    *)
(*       [src/unnamed/part_000]              and SDK listener wiring)      *)
(* Every action of the model is one synchronous JavaScript turn: an app    *)
(* dispatch of a thunk, or one SDK callback.  `trace` records, in order,   *)
(* what that turn did (SDK calls and dispatched actions), `err` the        *)
(* exception that ended it, if any.                                        *)
(***************************************************************************)
EXTENDS Integers, Sequences, FiniteSets, TLC

\* ---------------------------------------------------------------- bounds
MaxId == 3
MaxConf == 1
MaxTrack == 2
\* Caps on the length of the roster and of the tracks slice, which the code
\* lets grow without limit.
MaxRoster == 2
MaxSlice == 2

\* ---------------------------------------------------------------- inputs
NoId == 0
\* The id of a participant object that has no id field (undefined).
UndefinedId == -1
Ids == 1..MaxId
Names == {"n"}
Roles == {"none", "moderator"}
NoEmail == ""
Emails == {"e"}
Rooms == {"r"}
NoTrack == 0
Tracks == 1..MaxTrack
NoConference == 0
NoError == ""
ConnectionError == "Cannot create conference without connection"
TypeError == "TypeError"
Undefined == [undefined |-> TRUE]

\* track.isLocal() of the SDK's track object: odd handles are local media.
isLocal(t) == t % 2 = 1

VARIABLES
    connection,    \* state['features/base/connection'] is truthy
    conference,    \* state['features/base/conference'].jitsiConference
    participants,  \* state['features/base/participants']
    tracks,        \* state['features/base/tracks']
    sdk,           \* the conference objects created through the connection
    op,            \* the turn that ran last and its arguments
    trace,         \* SDK calls and dispatches of that turn, in order
    err,           \* the exception that ended that turn
    turn           \* parity of the number of turns run

store == <<connection, conference, participants, tracks>>
vars == <<connection, conference, participants, tracks, sdk, op, trace, err, turn>>

\* ------------------------------------------------------------- utilities
\* Array.prototype.find is the first element of the filtered array.
First(s) == IF s = <<>> THEN Undefined ELSE Head(s)

\* Object spread { ...a, ...b }
Spread(a, b) ==
    [f \in (DOMAIN a) \cup (DOMAIN b) |-> IF f \in DOMAIN b THEN b[f] ELSE a[f]]

Get(r, f, d) == IF f \in DOMAIN r THEN r[f] ELSE d

Dispatched(a) == [k |-> "dispatch", action |-> a]

\* -------------------------------------------- participants/actions.js
changeParticipantEmail(id, email) ==
    [type |-> "PARTICIPANT_UPDATED", participant |-> [id |-> id, email |-> email]]

dominantSpeakerChanged(id) ==
    [type |-> "DOMINANT_SPEAKER_CHANGED", participant |-> [id |-> id]]

participantJoined(participant) ==
    [type |-> "PARTICIPANT_JOINED", participant |-> participant]

participantLeft(id) ==
    [type |-> "PARTICIPANT_LEFT", participant |-> [id |-> id]]

participantRoleChanged(id, role) ==
    [type |-> "PARTICIPANT_UPDATED", participant |-> [id |-> id, role |-> role]]

localParticipantJoined(participant) ==
    participantJoined(Spread(participant, [local |-> TRUE]))

\* A lookup that takes the roster's first participant, flagged or not.
_getFirstParticipant(roster) == First(roster)

_getLocalParticipant(roster) == First(SelectSeq(roster, LAMBDA p : p.local))

\* The thunks return the effects of one run against the state they read.
localParticipantIdChanged(id, roster) ==
    LET localParticipant == _getLocalParticipant(roster) IN
    IF localParticipant # Undefined
    THEN <<Dispatched([type |-> "PARTICIPANT_ID_CHANGED",
                       participant |-> [newId |-> id,
                                        previousId |-> localParticipant.id]])>>
    ELSE <<>>

localParticipantLeft(roster) ==
    LET participant == _getLocalParticipant(roster) IN
    IF participant # Undefined
    THEN <<Dispatched(participantLeft(participant.id))>>
    ELSE <<>>

\* Mutant: the condition without its test of the participant's local flag.
pinSignalsAnyParticipant(participant, localParticipant) ==
    \/ participant # Undefined
    \/ participant = Undefined
         /\ (localParticipant = Undefined \/ ~localParticipant.pinned)

\* The condition of pinParticipant that guards conference.pinParticipant(id).
pinSignals(participant, localParticipant) ==
    \/ participant # Undefined /\ ~participant.local
    \/ participant = Undefined
         /\ (localParticipant = Undefined \/ ~localParticipant.pinned)

\* conference.pinParticipant(id) on an undefined/null conference throws a
\* TypeError, which ends the thunk before its dispatch.
pinParticipant(id, conf, roster) ==
    LET participant == First(SelectSeq(roster, LAMBDA p : p.id = id))
        localParticipant == _getLocalParticipant(roster)
        pinned == Dispatched([type |-> "PARTICIPANT_PINNED",
                              participant |-> [id |-> id]])
    IN  IF pinSignals(participant, localParticipant)
        THEN IF conf = NoConference
             THEN [err |-> TypeError, trace |-> <<>>]
             ELSE [err |-> NoError,
                   trace |-> <<[k |-> "sdk", conference |-> conf,
                                call |-> "pinParticipant", id |-> id], pinned>>]
        ELSE [err |-> NoError, trace |-> <<pinned>>]

\* ---------------------------------------------- conference/actions.js
\* JitsiConferenceEvents the listeners are registered for, in source order.
ConferenceEvents ==
    <<"CONFERENCE_JOINED", "CONFERENCE_LEFT", "DOMINANT_SPEAKER_CHANGED",
      "TRACK_ADDED", "TRACK_MUTE_CHANGED", "TRACK_REMOVED",
      "USER_JOINED", "USER_LEFT", "USER_ROLE_CHANGED">>
EMAIL_COMMAND == "email"

\* The SDK calls of _setupConferenceListeners(conference), in order.
_setupConferenceListeners(h) ==
    [i \in 1..Len(ConferenceEvents) |->
        [k |-> "sdk", conference |-> h, call |-> "on", event |-> ConferenceEvents[i]]]
    \o <<[k |-> "sdk", conference |-> h, call |-> "addCommandListener",
          event |-> EMAIL_COMMAND]>>

\* Mutant: without the connection check, connection.initJitsiConference on
\* a missing connection is what throws.
createConferenceUnchecked(room, conn, h) ==
    IF ~conn
    THEN [err |-> TypeError, trace |-> <<>>]
    ELSE [err |-> NoError,
          trace |-> <<[k |-> "sdk", conference |-> h,
                       call |-> "initJitsiConference", room |-> room]>>
                    \o _setupConferenceListeners(h)
                    \o <<[k |-> "sdk", conference |-> h, call |-> "join"]>>]

\* Mutant: join() is called before the listeners are registered.
createConferenceJoinFirst(room, conn, h) ==
    IF ~conn
    THEN [err |-> ConnectionError, trace |-> <<>>]
    ELSE [err |-> NoError,
          trace |-> <<[k |-> "sdk", conference |-> h,
                       call |-> "initJitsiConference", room |-> room],
                      [k |-> "sdk", conference |-> h, call |-> "join"]>>
                    \o _setupConferenceListeners(h)]

\* createConference(room) when connection.initJitsiConference returns handle h.
createConference(room, conn, h) ==
    IF ~conn
    THEN [err |-> ConnectionError, trace |-> <<>>]
    ELSE [err |-> NoError,
          trace |-> <<[k |-> "sdk", conference |-> h,
                       call |-> "initJitsiConference", room |-> room]>>
                    \o _setupConferenceListeners(h)
                    \o <<[k |-> "sdk", conference |-> h, call |-> "join"]>>]

\* Mutant: every track of the store is handed over, not only the local ones.
conferenceJoinedAllTracks(h, tracksState) ==
    LET allTracks == [i \in 1..Len(tracksState) |-> tracksState[i].jitsiTrack]
    IN  (IF Len(allTracks) # 0
         THEN <<[k |-> "sdk", conference |-> h,
                 call |-> "_addLocalTracksToConference", tracks |-> allTracks]>>
         ELSE <<>>)
        \o <<Dispatched([type |-> "CONFERENCE_JOINED",
                         conference |-> [jitsiConference |-> h]])>>

conferenceJoined(h, tracksState) ==
    LET filtered == SelectSeq(tracksState, LAMBDA t : t.local)
        localTracks == [i \in 1..Len(filtered) |-> filtered[i].jitsiTrack]
    IN  (IF Len(localTracks) # 0
         THEN <<[k |-> "sdk", conference |-> h,
                 call |-> "_addLocalTracksToConference", tracks |-> localTracks]>>
         ELSE <<>>)
        \o <<Dispatched([type |-> "CONFERENCE_JOINED",
                         conference |-> [jitsiConference |-> h]])>>

conferenceLeft(h) ==
    [type |-> "CONFERENCE_LEFT", conference |-> [jitsiConference |-> h]]

\* Action creators of '../tracks', which the listeners call.
trackAdded(t) ==
    [type |-> "TRACK_ADDED",
     track |-> [jitsiTrack |-> t, local |-> isLocal(t), muted |-> FALSE]]
trackRemoved(t) ==
    [type |-> "TRACK_REMOVED", track |-> [jitsiTrack |-> t]]
trackMuteChanged(t, muted) ==
    [type |-> "TRACK_MUTE_CHANGED", track |-> [jitsiTrack |-> t, muted |-> muted]]

\* The listeners registered by _setupConferenceListeners.
\* Mutant: the listener without its test of track.isLocal().
onTrackAddedAnyTrack(track) ==
    IF track = NoTrack THEN <<>>
    ELSE <<Dispatched(trackAdded(track))>>

onTrackAdded(track) ==
    IF track = NoTrack \/ isLocal(track) THEN <<>>
    ELSE <<Dispatched(trackAdded(track))>>

onTrackRemoved(track) ==
    IF track = NoTrack \/ isLocal(track) THEN <<>>
    ELSE <<Dispatched(trackRemoved(track))>>

onTrackMuteChanged(track, muted) == <<Dispatched(trackMuteChanged(track, muted))>>

onUserJoined(id, displayName, role) ==
    <<Dispatched(participantJoined([id |-> id, name |-> displayName, role |-> role]))>>

\* Mutant: the USER_LEFT listener dispatches the action of the line above it.
onUserLeftAsJoined(id) == <<Dispatched(participantJoined([id |-> id]))>>

onUserLeft(id) == <<Dispatched(participantLeft(id))>>

onUserRoleChanged(id, role) == <<Dispatched(participantRoleChanged(id, role))>>

onEmailCommand(value, id) == <<Dispatched(changeParticipantEmail(id, value))>>

onDominantSpeakerChanged(id) == <<Dispatched(dominantSpeakerChanged(id))>>

\* --------------------------------------------------------------- the SDK
\* What the calls of a turn leave in the conference objects.
SdkStep(s, e) ==
    CASE e.call = "initJitsiConference" ->
            Append(s, [listeners |-> {}, joins |-> 0])
      [] e.call \in {"on", "addCommandListener"} ->
            [s EXCEPT ![e.conference].listeners = @ \cup {e.event}]
      [] e.call = "join" ->
            [s EXCEPT ![e.conference].joins = @ + 1]
      [] OTHER -> s

\* ------------------------------------------------------------- reducers
\* The reducers are registered by './reducer' and are not part of the
\* sources at hand; they follow the data model of the specification.
\* Of the Participant record { id, name, email, role, local, pinned } the
\* roster keeps the fields the action creators read: id, local and pinned.
\* Ids are unique within the roster: a join under an id the roster already
\* holds creates nothing, and an id change to an id the roster already holds
\* changes nothing.
NewParticipant(p) ==
    [id |-> Get(p, "id", UndefinedId),
     local |-> Get(p, "local", FALSE), pinned |-> Get(p, "pinned", FALSE)]

ParticipantsReducer(state, action) ==
    CASE action.type = "PARTICIPANT_JOINED" ->
            IF \E i \in 1..Len(state) :
                   state[i].id = NewParticipant(action.participant).id
            THEN state
            ELSE Append(state, NewParticipant(action.participant))
      [] action.type = "PARTICIPANT_LEFT" ->
            SelectSeq(state, LAMBDA p : p.id # action.participant.id)
      [] action.type = "PARTICIPANT_ID_CHANGED" ->
            IF \E i \in 1..Len(state) : state[i].id = action.participant.newId
            THEN state
            ELSE [i \in 1..Len(state) |->
                     IF state[i].id = action.participant.previousId
                     THEN [state[i] EXCEPT !.id = action.participant.newId]
                     ELSE state[i]]
      [] action.type = "PARTICIPANT_PINNED" ->
            [i \in 1..Len(state) |->
                [state[i] EXCEPT !.pinned = (state[i].id = action.participant.id)]]
      [] action.type = "PARTICIPANT_UPDATED" ->
            [i \in 1..Len(state) |->
                IF state[i].id = action.participant.id
                THEN NewParticipant(Spread(state[i], action.participant))
                ELSE state[i]]
      [] OTHER -> state

ConferenceReducer(state, action) ==
    CASE action.type = "CONFERENCE_JOINED" -> action.conference.jitsiConference
      [] action.type = "CONFERENCE_LEFT" ->
            IF state = action.conference.jitsiConference THEN NoConference ELSE state
      [] OTHER -> state

\* The tracks slice keeps each track's handle, its local flag and its mute.
TracksReducer(state, action) ==
    CASE action.type = "TRACK_ADDED" -> Append(state, action.track)
      [] action.type = "TRACK_REMOVED" ->
            SelectSeq(state, LAMBDA t : t.jitsiTrack # action.track.jitsiTrack)
      [] action.type = "TRACK_MUTE_CHANGED" ->
            [i \in 1..Len(state) |->
                IF state[i].jitsiTrack = action.track.jitsiTrack
                THEN [state[i] EXCEPT !.muted = action.track.muted]
                ELSE state[i]]
      [] OTHER -> state

\* The actions a turn dispatched, in order.
Actions(tr) ==
    LET d == SelectSeq(tr, LAMBDA e : e.k = "dispatch")
    IN  [i \in 1..Len(d) |-> d[i].action]

SdkCalls(tr) == SelectSeq(tr, LAMBDA e : e.k = "sdk")

\* dispatch runs each action of a turn through the three reducers, and each
\* SDK call acts on the conference objects, in the order of the turn.
RECURSIVE ReduceParticipants(_, _)
ReduceParticipants(state, actions) ==
    IF actions = <<>> THEN state
    ELSE ReduceParticipants(ParticipantsReducer(state, Head(actions)), Tail(actions))

RECURSIVE ReduceConference(_, _)
ReduceConference(state, actions) ==
    IF actions = <<>> THEN state
    ELSE ReduceConference(ConferenceReducer(state, Head(actions)), Tail(actions))

RECURSIVE ReduceTracks(_, _)
ReduceTracks(state, actions) ==
    IF actions = <<>> THEN state
    ELSE ReduceTracks(TracksReducer(state, Head(actions)), Tail(actions))

RECURSIVE SdkApply(_, _)
SdkApply(s, calls) ==
    IF calls = <<>> THEN s
    ELSE SdkApply(SdkStep(s, Head(calls)), Tail(calls))

\* One turn: its effects are recorded and its dispatches reduced.
Turn(o, tr, e) ==
    /\ op' = o
    /\ trace' = tr
    /\ err' = e
    /\ turn' = 1 - turn
    /\ participants' = ReduceParticipants(participants, Actions(tr))
    /\ conference' = ReduceConference(conference, Actions(tr))
    /\ tracks' = ReduceTracks(tracks, Actions(tr))
    /\ sdk' = SdkApply(sdk, SdkCalls(tr))
    /\ UNCHANGED connection

RosterIds == {participants[i].id : i \in 1..Len(participants)}
StoreTracks == {tracks[i].jitsiTrack : i \in 1..Len(tracks)}
Handles == 1..Len(sdk)

Init ==
    /\ connection \in BOOLEAN
    /\ conference = NoConference
    /\ participants = <<>>
    /\ tracks = <<>>
    /\ sdk = <<>>
    /\ op = [name |-> "init"]
    /\ trace = <<>>
    /\ err = NoError
    /\ turn = 0

\* ---------------------------------------------------- application turns
\* The participant objects localParticipantJoined is called with: the
\* default {}, { id, name }, and one that carries a local flag of its own.
LocalJoinInputs ==
    {<<>>}
    \cup {[id |-> id, name |-> n] : id \in Ids, n \in Names}
    \cup {[id |-> id, name |-> n, local |-> FALSE] : id \in Ids, n \in Names}

LocalParticipantJoined ==
    \E p \in LocalJoinInputs :
        /\ Len(participants) < MaxRoster
        /\ Turn([name |-> "localParticipantJoined", participant |-> p],
                <<Dispatched(localParticipantJoined(p))>>, NoError)

LocalParticipantIdChanged ==
    \E id \in Ids :
        /\ Turn([name |-> "localParticipantIdChanged", id |-> id],
                localParticipantIdChanged(id, participants), NoError)

LocalParticipantLeft ==
    /\ Turn([name |-> "localParticipantLeft"],
            localParticipantLeft(participants), NoError)

PinParticipant ==
    \E id \in Ids \cup {NoId} :
        LET r == pinParticipant(id, conference, participants) IN
        /\ Turn([name |-> "pinParticipant", id |-> id], r.trace, r.err)

CreateConference ==
    \E room \in Rooms :
        LET r == createConference(room, connection, Len(sdk) + 1) IN
        /\ connection => Len(sdk) < MaxConf
        /\ Turn([name |-> "createConference", room |-> room], r.trace, r.err)

\* The tracks feature puts the local media it created into the store.
LocalTrackAdded ==
    \E t \in Tracks :
        /\ isLocal(t)
        /\ Len(tracks) < MaxSlice
        /\ Turn([name |-> "localTrackAdded", track |-> t],
                <<Dispatched(trackAdded(t))>>, NoError)

\* ------------------------------------------------------------ SDK turns
\* The conference object h emits an event: the listener registered for it
\* runs, and an event without a listener is lost.
Emit(h, event, o, tr) ==
    LET handled == event \in sdk[h].listeners IN
    Turn(Spread(o, [name |-> event, conference |-> h, handled |-> handled]),
         IF handled THEN tr ELSE <<>>, NoError)

ConferenceJoinedEvent ==
    \E h \in Handles : Emit(h, "CONFERENCE_JOINED", <<>>, conferenceJoined(h, tracks))

ConferenceLeftEvent ==
    \E h \in Handles :
        Emit(h, "CONFERENCE_LEFT", <<>>, <<Dispatched(conferenceLeft(h))>>)

DominantSpeakerEvent ==
    \E h \in Handles, id \in Ids :
        Emit(h, "DOMINANT_SPEAKER_CHANGED", [id |-> id], onDominantSpeakerChanged(id))

TrackAddedEvent ==
    \E h \in Handles, t \in Tracks \cup {NoTrack} :
        /\ onTrackAdded(t) # <<>> => Len(tracks) < MaxSlice
        /\ Emit(h, "TRACK_ADDED", [track |-> t], onTrackAdded(t))

TrackMuteChangedEvent ==
    \E h \in Handles, t \in Tracks, muted \in BOOLEAN :
        Emit(h, "TRACK_MUTE_CHANGED", [track |-> t, muted |-> muted],
             onTrackMuteChanged(t, muted))

TrackRemovedEvent ==
    \E h \in Handles, t \in Tracks \cup {NoTrack} :
        Emit(h, "TRACK_REMOVED", [track |-> t], onTrackRemoved(t))

UserJoinedEvent ==
    \E h \in Handles, id \in Ids, n \in Names, role \in Roles :
        /\ Len(participants) < MaxRoster
        /\ Emit(h, "USER_JOINED", [id |-> id, displayName |-> n, role |-> role],
                onUserJoined(id, n, role))

UserLeftEvent ==
    \E h \in Handles, id \in Ids :
        Emit(h, "USER_LEFT", [id |-> id], onUserLeft(id))

UserRoleChangedEvent ==
    \E h \in Handles, id \in Ids, role \in Roles :
        Emit(h, "USER_ROLE_CHANGED", [id |-> id, role |-> role],
             onUserRoleChanged(id, role))

EmailCommandEvent ==
    \E h \in Handles, id \in Ids, value \in Emails :
        Emit(h, EMAIL_COMMAND, [id |-> id, value |-> value],
             onEmailCommand(value, id))

\* The turns around the roster and the pin: participants/actions.js with
\* the conference lifecycle that sets the store's conference.
NextParticipants ==
    \/ LocalParticipantJoined
    \/ LocalParticipantIdChanged
    \/ LocalParticipantLeft
    \/ PinParticipant
    \/ CreateConference
    \/ ConferenceJoinedEvent
    \/ ConferenceLeftEvent
    \/ UserJoinedEvent
    \/ UserLeftEvent

\* The turns of conference/actions.js around the conference and its
\* participants: createConference and the lifecycle, participant and mute
\* listeners.
NextConference ==
    \/ CreateConference
    \/ ConferenceJoinedEvent
    \/ ConferenceLeftEvent
    \/ DominantSpeakerEvent
    \/ TrackMuteChangedEvent
    \/ UserJoinedEvent
    \/ UserLeftEvent
    \/ UserRoleChangedEvent
    \/ EmailCommandEvent

\* The turns of conference/actions.js around the tracks: createConference,
\* the lifecycle and track listeners, and the local media put in the store.
NextTracks ==
    \/ CreateConference
    \/ LocalTrackAdded
    \/ ConferenceJoinedEvent
    \/ ConferenceLeftEvent
    \/ TrackAddedEvent
    \/ TrackMuteChangedEvent
    \/ TrackRemovedEvent

SpecParticipants == Init /\ [][NextParticipants]_vars
SpecConference == Init /\ [][NextConference]_vars
SpecTracks == Init /\ [][NextTracks]_vars

\* ================================================================ claims
\* What the last turn did.
Dispatches == Actions(trace)
PinCalls == SelectSeq(trace, LAMBDA e : e.k = "sdk" /\ e.call = "pinParticipant")
Locals == {i \in 1..Len(participants) : participants[i].local}
IsEvent == "handled" \in DOMAIN op

\* ---- C1
\* C1 as stated: a PARTICIPANT_PINNED action never carries the id of the
\* participant flagged local, and the roster's pinned participant is never
\* the local one.
C1_PinnedNeverLocal ==
    /\ \A i \in 1..Len(Dispatches) :
          Dispatches[i].type = "PARTICIPANT_PINNED" =>
              \A j \in Locals : participants[j].id # Dispatches[i].participant.id
    /\ \A j \in Locals : ~participants[j].pinned

\* C1 as amended: conference.pinParticipant(id) is never called with the
\* id of a participant flagged local (the store's pinned participant may be
\* the local one).
C1_SignalNeverLocal ==
    \A i \in 1..Len(PinCalls) :
        \A j \in Locals : participants[j].id # PinCalls[i].id

\* A pin of the local participant went through without a signal to the SDK.
C1_Witness ==
    /\ op.name = "pinParticipant"
    /\ conference # NoConference
    /\ \E j \in Locals : participants[j].id = op.id /\ participants[j].pinned
    /\ PinCalls = <<>>
    /\ Len(Dispatches) = 1

\* ---- C2
\* C2: the roster holds at most one participant flagged local, whatever the
\* sequence of join, leave and id-change turns.
C2_AtMostOneLocal == Cardinality(Locals) <= 1

\* ---- C3
\* C3: createConference(room) without a connection throws 'Cannot create
\* conference without connection' and does nothing else: no SDK call, no
\* dispatch, store and conference objects unchanged.
C3_Step ==
    op'.name = "createConference" /\ ~connection =>
        /\ err' = ConnectionError
        /\ trace' = <<>>
        /\ UNCHANGED <<store, sdk>>
\* C3, of every step: a createConference turn without connection only throws.
C3_NoConnectionNoEffect == [][C3_Step]_vars

C3_Witness == op.name = "createConference" /\ ~connection /\ err # NoError

\* ---- C4
ParticipantEventType(name) ==
    CASE name = "USER_JOINED" -> "PARTICIPANT_JOINED"
      [] name = "USER_LEFT" -> "PARTICIPANT_LEFT"
      [] OTHER -> "PARTICIPANT_UPDATED"

\* C4 as stated: USER_JOINED, USER_LEFT, USER_ROLE_CHANGED, the email command
\* and a mute change each dispatch exactly one participant action of the
\* named kind that carries the event's participant id.
C4_EveryEventOneParticipantAction ==
    IsEvent /\ op.name \in {"USER_JOINED", "USER_LEFT", "USER_ROLE_CHANGED",
                            EMAIL_COMMAND, "TRACK_MUTE_CHANGED"} =>
        /\ Len(Dispatches) = 1
        /\ Dispatches[1].type = ParticipantEventType(op.name)
        /\ "id" \in DOMAIN op
        /\ Dispatches[1].participant.id = op.id

\* C4 as amended: USER_JOINED, USER_LEFT, USER_ROLE_CHANGED and the email
\* command each dispatch exactly one participant action of the named kind
\* with the event's participant id; a mute change dispatches exactly one
\* action, which is the track action for the event's track and names no
\* participant.
C4_ParticipantEvents ==
    /\ IsEvent /\ op.name \in {"USER_JOINED", "USER_LEFT", "USER_ROLE_CHANGED",
                               EMAIL_COMMAND} =>
          /\ Len(Dispatches) = 1
          /\ Dispatches[1].type = ParticipantEventType(op.name)
          /\ Dispatches[1].participant.id = op.id
    /\ IsEvent /\ op.name = "TRACK_MUTE_CHANGED" =>
          /\ Len(Dispatches) = 1
          /\ "participant" \notin DOMAIN Dispatches[1]
          /\ Dispatches[1].track.jitsiTrack = op.track

\* A role change of a participant of the roster was delivered.
C4_Witness ==
    /\ IsEvent /\ op.name = "USER_ROLE_CHANGED"
    /\ op.id \in RosterIds
    /\ Len(Dispatches) = 1

\* ---- C5
FirstLocal == participants[CHOOSE i \in Locals : \A j \in Locals : i <= j]
RemoteIds == {participants[i].id : i \in (1..Len(participants)) \ Locals}

\* C5: localParticipantIdChanged(id) and localParticipantLeft() dispatch
\* exactly one action naming the id of the participant flagged local
\* (PARTICIPANT_ID_CHANGED previousId -> id, PARTICIPANT_LEFT of that id),
\* never a remote participant's id, and without a local participant they
\* dispatch nothing and leave the store unchanged.
C5_Step ==
    /\ op'.name = "localParticipantIdChanged" =>
          IF Locals = {}
          THEN trace' = <<>> /\ UNCHANGED store
          ELSE /\ Len(trace') = 1
               /\ trace'[1].k = "dispatch"
               /\ trace'[1].action.type = "PARTICIPANT_ID_CHANGED"
               /\ trace'[1].action.participant.newId = op'.id
               /\ trace'[1].action.participant.previousId = FirstLocal.id
               /\ trace'[1].action.participant.previousId \notin RemoteIds
    /\ op'.name = "localParticipantLeft" =>
          IF Locals = {}
          THEN trace' = <<>> /\ UNCHANGED store
          ELSE /\ Len(trace') = 1
               /\ trace'[1].k = "dispatch"
               /\ trace'[1].action.type = "PARTICIPANT_LEFT"
               /\ trace'[1].action.participant.id = FirstLocal.id
               /\ trace'[1].action.participant.id \notin RemoteIds
\* C5, of every step: the two local thunks against the roster they read.
C5_LocalThunks == [][C5_Step]_vars

\* The local participant was renumbered while a remote one was in the roster.
C5_Witness ==
    /\ op.name = "localParticipantIdChanged"
    /\ Len(Dispatches) = 1
    /\ Dispatches[1].participant.previousId \in Ids \ {op.id}
    /\ RemoteIds # {}
    /\ \E j \in Locals : participants[j].id = op.id

\* ---- C6
\* The condition of the claim, on the roster the call finds.
C6_Condition(id) ==
    \/ \E i \in 1..Len(participants) :
          participants[i].id = id /\ ~participants[i].local
    \/ /\ \A i \in 1..Len(participants) : participants[i].id # id
       /\ (Locals = {} \/ ~FirstLocal.pinned)

\* C6: pinParticipant(id) signals the SDK exactly when id is a remote
\* participant of the roster, or id is no participant of the roster and the
\* local participant is absent or not pinned.
C6_Step ==
    op'.name = "pinParticipant" =>
        ((\E i \in 1..Len(trace') :
              /\ trace'[i].k = "sdk"
              /\ trace'[i].call = "pinParticipant"
              /\ trace'[i].id = op'.id)
         <=> C6_Condition(op'.id))
\* C6, of every step: a pinParticipant turn signals iff the condition holds.
C6_SignalsExactlyWhen == [][C6_Step]_vars

\* ---- C7
LocalStoreTracks ==
    {tracks[i].jitsiTrack : i \in {j \in 1..Len(tracks) : tracks[j].local}}
Range(seq) == {seq[i] : i \in 1..Len(seq)}

\* C7: conferenceJoined(conference) hands the SDK exactly the store's local
\* tracks, only when there is one, before it dispatches CONFERENCE_JOINED,
\* and dispatches CONFERENCE_JOINED with that conference exactly once.
C7_Step ==
    IsEvent' /\ op'.name = "CONFERENCE_JOINED" =>
        LET joined == [k |-> "dispatch",
                       action |-> [type |-> "CONFERENCE_JOINED",
                                   conference |-> [jitsiConference |-> op'.conference]]]
        IN  IF LocalStoreTracks = {}
            THEN trace' = <<joined>>
            ELSE /\ Len(trace') = 2
                 /\ trace'[1].k = "sdk"
                 /\ trace'[1].call = "_addLocalTracksToConference"
                 /\ trace'[1].conference = op'.conference
                 /\ Range(trace'[1].tracks) = LocalStoreTracks
                 /\ \A t \in Range(trace'[1].tracks) : isLocal(t)
                 /\ trace'[2] = joined
\* C7, of every step: a CONFERENCE_JOINED turn against the tracks it reads.
C7_LocalTracksThenJoined == [][C7_Step]_vars

\* A conference was joined with a local and a remote track in the store.
C7_Witness ==
    /\ IsEvent /\ op.name = "CONFERENCE_JOINED"
    /\ Len(trace) = 2
    /\ StoreTracks \ LocalStoreTracks # {}

\* ---- C8
\* C8: every pinParticipant(id) call ends, without an exception, by
\* dispatching exactly one PARTICIPANT_PINNED action carrying id.
C8_PinAlwaysDispatches ==
    op.name = "pinParticipant" =>
        /\ err = NoError
        /\ Len(Dispatches) = 1
        /\ Dispatches[1].type = "PARTICIPANT_PINNED"
        /\ Dispatches[1].participant.id = op.id

\* ---- C9
Position(call) == {i \in 1..Len(trace) : trace[i].k = "sdk" /\ trace[i].call = call}

\* C9: createConference registers every conference listener and the email
\* command listener on the new handle before its single join(); hence every
\* handle was joined exactly once, no event finds its listener missing, and
\* no action is dispatched for a handle that was not joined.
C9_ListenersBeforeJoin ==
    /\ op.name = "createConference" /\ err = NoError =>
          /\ Position("join") = {Len(trace)}
          /\ {trace[i].event : i \in Position("on")} = Range(ConferenceEvents)
          /\ {trace[i].event : i \in Position("addCommandListener")} = {EMAIL_COMMAND}
          /\ \A i \in 1..Len(trace) : trace[i].conference = Len(sdk)
    /\ \A h \in Handles :
          /\ sdk[h].joins = 1
          /\ sdk[h].listeners = Range(ConferenceEvents) \cup {EMAIL_COMMAND}
    /\ IsEvent => op.handled /\ sdk[op.conference].joins >= 1

\* An SDK event of a created conference reached its listener.
C9_Witness ==
    /\ IsEvent /\ op.name = "USER_JOINED" /\ op.handled
    /\ Len(Dispatches) = 1

\* ---- C10
\* C10: TRACK_ADDED / TRACK_REMOVED dispatch exactly one trackAdded /
\* trackRemoved action for a present remote track and nothing (store
\* unchanged) for a missing or local one; TRACK_MUTE_CHANGED dispatches
\* trackMuteChanged for every track.
C10_Step ==
    /\ IsEvent' /\ op'.name \in {"TRACK_ADDED", "TRACK_REMOVED"} =>
          IF op'.track # NoTrack /\ ~isLocal(op'.track)
          THEN /\ Len(trace') = 1
               /\ trace'[1].k = "dispatch"
               /\ trace'[1].action.type = op'.name
               /\ trace'[1].action.track.jitsiTrack = op'.track
          ELSE trace' = <<>> /\ UNCHANGED store
    /\ IsEvent' /\ op'.name = "TRACK_MUTE_CHANGED" =>
          /\ Len(trace') = 1
          /\ trace'[1].k = "dispatch"
          /\ trace'[1].action.type = "TRACK_MUTE_CHANGED"
          /\ trace'[1].action.track.jitsiTrack = op'.track
\* C10, of every step: the track listeners filter as stated.
C10_TrackEvents == [][C10_Step]_vars

\* A TRACK_ADDED event for a local track was dropped.
C10_Witness ==
    /\ IsEvent /\ op.name = "TRACK_ADDED"
    /\ op.track # NoTrack /\ isLocal(op.track)
    /\ trace = <<>>
====
